---- MODULE Spec2Model ----
(***************************************************************************)
(* Model of src/src/App.tsx: the property financial plan calculator.       *)
(*                                                                         *)
(* Numbers.  The program computes in IEEE doubles.  The model keeps        *)
(*   - money (lump sums and monthly amounts) as an integer number of       *)
(*     cents, so 180000 dollars is Dollars(180000);                        *)
(*   - annual rates as an integer number of basis points (0.04 is 400);    *)
(*   - the results of Math.pow as fixed-point numbers with One units to    *)
(*     the unit, and the annuity factor with FactorOne units to the unit;  *)
(*   - NaN, the result of 0/0, as the value NaN, an integer below every    *)
(*     amount the program computes; every comparison with it is FALSE and  *)
(*     the arithmetic, Math.max and Math.min propagate it.                 *)
(* Products and quotients are rounded to the nearest unit, as the double   *)
(* arithmetic rounds to the nearest double.                                *)
(***************************************************************************)
EXTENDS Integers, Sequences, FiniteSets, TLC

\* ------------------------------------------------------------------------
\* Number model
\* ------------------------------------------------------------------------

NaN == 0 - 2147483647

IsNum(x) == x # NaN

\* JavaScript comparisons: any comparison with NaN is false.
Lt(a, b) == IsNum(a) /\ IsNum(b) /\ a < b
Le(a, b) == IsNum(a) /\ IsNum(b) /\ a <= b
Gt(a, b) == IsNum(a) /\ IsNum(b) /\ a > b

\* Math.max / Math.min of two arguments: NaN if either argument is NaN.
MathMax(a, b) == IF ~IsNum(a) \/ ~IsNum(b) THEN NaN ELSE IF a >= b THEN a ELSE b
MathMin(a, b) == IF ~IsNum(a) \/ ~IsNum(b) THEN NaN ELSE IF a <= b THEN a ELSE b

\* a + b and a - b with NaN propagation.
Add(a, b) == IF ~IsNum(a) \/ ~IsNum(b) THEN NaN ELSE a + b
Sub(a, b) == IF ~IsNum(a) \/ ~IsNum(b) THEN NaN ELSE a - b

Dollars(n) == n * 100

\* x * num / den rounded to the nearest integer, for integers x, num >= 0
\* and den > 0 with num * den below 2^31: the product with a decimal literal,
\* price * 0.02 being Times(price, 2, 100).  The product x * num is not
\* formed, so that the 32-bit integers of the checker do not overflow.
Times(x, num, den) ==
  IF ~IsNum(x) THEN NaN
  ELSE (x \div den) * num + (((x % den) * num + den \div 2) \div den)

\* a * b / (k * k) rounded to the nearest integer, for a, b >= 0: the
\* product of two numbers of which one is fixed-point with k * k units to
\* the unit, formed from the halves of a and b to the base k.
MulScaled(a, b, k) ==
  LET ah == a \div k
      al == a % k
      bh == b \div k
      bl == b % k
  IN ah * bh + ((ah * bl + al * bh + ((al * bl + (k * k) \div 2) \div k)) \div k)

\* The fixed-point scale of Math.pow: One is 1.0.  A monthly rate of one
\* basis point a year, 0.0001 / 12, is One \div RateUnit units.
RateUnit == 120000
FixBase == 12000
One == FixBase * FixBase

\* The fixed-point scale of the annuity factor: FactorOne is 1.0.
FactorBase == 1200
FactorOne == FactorBase * FactorBase

\* a * b for fixed-point a and b.
FixMul(a, b) == MulScaled(a, b, FixBase)

\* 1 / x for a fixed-point x > 0: Newton's iteration y <- y * (2 - x * y)
\* from the quotient by the upper half of x.
FixRecipStep(x, y) == FixMul(y, 2 * One - FixMul(x, y))
FixRecip(x) ==
  LET xh == x \div FixBase
      y0 == (One \div xh) * FixBase + (((One % xh) * FixBase) \div xh)
  IN FixRecipStep(x, FixRecipStep(x, FixRecipStep(x, y0)))

\* x ^ n for a fixed-point x and an integer n >= 0, by repeated squaring.
RECURSIVE PowFix(_, _)
PowFix(x, n) ==
  IF n = 0 THEN One
  ELSE LET h  == PowFix(x, n \div 2)
           sq == FixMul(h, h)
       IN IF n % 2 = 0 THEN sq ELSE FixMul(sq, x)

\* Math.pow(x, n) for a fixed-point x >= 1 and an integer n.
MathPow(x, n) == IF n >= 0 THEN PowFix(x, n) ELSE FixRecip(PowFix(x, 0 - n))

\* 1 + monthlyRate as a fixed-point number, monthlyRate = rate / 12 for an
\* annual rate in basis points.
OnePlusMonthlyRate(rate) == One + rate * (One \div RateUnit)

\* ------------------------------------------------------------------------
\* Utility functions of App.tsx
\* ------------------------------------------------------------------------

\* The default values of the rate parameters (0.026 and 0.04).
DefaultRateMSR == 260
DefaultRateTDSR == 400

\* monthlyBudget * ((1 - Math.pow(1 + monthlyRate, -months)) / monthlyRate).
\* With monthlyRate = 0 the quotient is 0 / 0, which is NaN.
AnnuityLoan(monthlyBudget, months, rate) ==
  IF rate = 0 THEN NaN
  ELSE LET pow    == MathPow(OnePlusMonthlyRate(rate), 0 - months)
           factor == Times(One - pow, FactorOne \div (One \div RateUnit), rate)
       IN MulScaled(monthlyBudget, factor, FactorBase)

calculateMaxLoanMSR(monthlyIncome, tenureYears, rate) ==
  LET msrLimit == Times(monthlyIncome, 30, 100)
      months   == tenureYears * 12
  IN IF Le(msrLimit, 0) \/ months <= 0 THEN 0
     ELSE IF ~IsNum(msrLimit) THEN NaN
     ELSE AnnuityLoan(msrLimit, months, rate)

\* calculateBSD with the rate of the third tier copied into the fourth.
calculateBSD_SameRate(price) ==
  IF price <= Dollars(180000) THEN Times(price, 1, 100)
  ELSE IF price <= Dollars(360000)
    THEN Dollars(1800) + Times(price - Dollars(180000), 2, 100)
  ELSE IF price <= Dollars(1000000)
    THEN Dollars(5400) + Times(price - Dollars(360000), 3, 100)
  ELSE IF price <= Dollars(1500000)
    THEN Dollars(24600) + Times(price - Dollars(1000000), 3, 100)
  ELSE IF price <= Dollars(3000000)
    THEN Dollars(44600) + Times(price - Dollars(1500000), 5, 100)
  ELSE Dollars(119600) + Times(price - Dollars(3000000), 6, 100)

calculateBSD(price) ==
  IF price <= Dollars(180000) THEN Times(price, 1, 100)
  ELSE IF price <= Dollars(360000)
    THEN Dollars(1800) + Times(price - Dollars(180000), 2, 100)
  ELSE IF price <= Dollars(1000000)
    THEN Dollars(5400) + Times(price - Dollars(360000), 3, 100)
  ELSE IF price <= Dollars(1500000)
    THEN Dollars(24600) + Times(price - Dollars(1000000), 4, 100)
  ELSE IF price <= Dollars(3000000)
    THEN Dollars(44600) + Times(price - Dollars(1500000), 5, 100)
  ELSE Dollars(119600) + Times(price - Dollars(3000000), 6, 100)

calculateMaxLoan(monthlyTDSR, tenureYears, rate) ==
  LET months == tenureYears * 12
  IN IF Le(monthlyTDSR, 0) \/ months <= 0 THEN 0
     ELSE IF ~IsNum(monthlyTDSR) THEN NaN
     ELSE AnnuityLoan(monthlyTDSR, months, rate)

\* calculateMonthlyInstalment with the power of one payment more than
\* tenureYears * 12.
calculateMonthlyInstalment_ExtraMonth(principal, tenureYears, rate) ==
  LET months == tenureYears * 12
  IN IF Le(principal, 0) \/ months <= 0 THEN 0
     ELSE IF ~IsNum(principal) \/ rate = 0 THEN NaN
     ELSE LET pow   == MathPow(OnePlusMonthlyRate(rate), months + 1)
              ratio == FixMul(pow, FixRecip(pow - One))
          IN Times(MulScaled(principal, ratio, FixBase), rate, RateUnit)

\* principal * (monthlyRate * pow) / (pow - 1) with pow = Math.pow(1 +
\* monthlyRate, months), evaluated as (principal * (pow / (pow - 1))) *
\* monthlyRate to keep the precision of the fixed-point quotient.  With
\* monthlyRate = 0 the quotient is 0 / 0, which is NaN.
calculateMonthlyInstalment(principal, tenureYears, rate) ==
  LET months == tenureYears * 12
  IN IF Le(principal, 0) \/ months <= 0 THEN 0
     ELSE IF ~IsNum(principal) \/ rate = 0 THEN NaN
     ELSE LET pow   == MathPow(OnePlusMonthlyRate(rate), months)
              ratio == FixMul(pow, FixRecip(pow - One))
          IN Times(MulScaled(principal, ratio, FixBase), rate, RateUnit)

\* ------------------------------------------------------------------------
\* State
\* ------------------------------------------------------------------------

VARIABLES
  propertyType, loanType, grants,
  sellingPrice, outstandingLoan, cpfUsed1, accruedInterest1, cpfUsed2,
  accruedInterest2, legalFees,
  currentCpf1, currentCpf2, cashSavings,
  buyer1, buyer2, monthlyOA,
  targetPrice, targetCash, targetCPF1, targetCPF2,
  interestRate, loanTenure,
  purchasePrices, purchasePricesDeps, purchaseDetailsDeps, purchaseDetailsScope,
  rendered,
  edits,
  callFn, callArgs, callStep, callResult, callBack

typeVars == <<propertyType, loanType, grants>>
saleVars == <<sellingPrice, outstandingLoan, cpfUsed1, accruedInterest1,
              cpfUsed2, accruedInterest2, legalFees>>
fundVars == <<currentCpf1, currentCpf2, cashSavings>>
buyerVars == <<buyer1, buyer2, monthlyOA>>
targetVars == <<targetPrice, targetCash, targetCPF1, targetCPF2>>
loanVars == <<interestRate, loanTenure>>
\* The two useMemo cells: the price list with the dependency values it was
\* computed for, and, for the grid, the dependency values and the values its
\* computation read when it last ran (the grid is a function of them).
\* rendered is FALSE from a handler's state update to the render that React
\* runs for it.
memoVars == <<purchasePrices, purchasePricesDeps, purchaseDetailsDeps,
              purchaseDetailsScope, rendered>>
appVars == <<typeVars, saleVars, fundVars, buyerVars, targetVars, loanVars,
             memoVars, edits>>
callVars == <<callFn, callArgs, callStep, callResult, callBack>>
vars == <<appVars, callVars>>

\* new Date().getFullYear()
currentYear == 2026

\* const [sellingAgentFeeRate] = useState(2.0): a percentage without a setter.
sellingAgentFeeRate == 2

\* The useState values of App.  interestRate is kept in tenths
\* of a percent (2.0 is 20), the step of its input.
InitApp ==
  /\ propertyType = "Private"
  /\ loanType = "Bank"
  /\ grants = 0
  /\ sellingPrice = Dollars(2400000)
  /\ outstandingLoan = Dollars(600000)
  /\ cpfUsed1 = Dollars(270000)
  /\ accruedInterest1 = Dollars(12500)
  /\ cpfUsed2 = Dollars(250000)
  /\ accruedInterest2 = Dollars(12500)
  /\ legalFees = Dollars(3000)
  /\ currentCpf1 = Dollars(80000)
  /\ currentCpf2 = Dollars(50000)
  /\ cashSavings = Dollars(500000)
  /\ buyer1 = [citizenship |-> "SC", incomeType |-> "Fixed",
               monthlyIncome |-> Dollars(5000), noa |-> Dollars(80000),
               birthYear |-> 1995, currentLoan |-> Dollars(1200)]
  /\ buyer2 = [citizenship |-> "SC", incomeType |-> "Fixed",
               monthlyIncome |-> Dollars(8000), noa |-> Dollars(120000),
               birthYear |-> 1990, currentLoan |-> 0]
  /\ monthlyOA = 0
  /\ targetPrice = Dollars(1000000)
  /\ targetCash = Dollars(250000)
  /\ targetCPF1 = Dollars(100000)
  /\ targetCPF2 = Dollars(50000)
  /\ interestRate = 20
  /\ loanTenure = 30
  /\ edits = 0

\* No utility function is being exercised on its own.
NoCall ==
  /\ callFn = "none"
  /\ callArgs = [amount |-> 0, tenureYears |-> 0, rate |-> 0]
  /\ callStep = 0
  /\ callResult = 0
  /\ callBack = 0

\* ------------------------------------------------------------------------
\* BuyerProfile: the figures of one buyer's panel
\* ------------------------------------------------------------------------

age(profile) == IF profile.birthYear # 0 THEN currentYear - profile.birthYear ELSE 0
maxTenure(profile) == MathMin(65 - age(profile), 35)
tenure(profile) == MathMax(0, maxTenure(profile))

adjustedIncome(profile) ==
  IF profile.incomeType = "Fixed"
    THEN MathMax(profile.monthlyIncome, Times(profile.noa, 1, 12))
    ELSE MathMin(profile.monthlyIncome, Times(profile.noa, 1, 12))

tdsr(profile) == Times(adjustedIncome(profile), 55, 100)
\* usableTDSR without the clamp at 0.
usableTDSR_Unclamped(profile) == tdsr(profile) - profile.currentLoan
usableTDSR(profile) == MathMax(0, tdsr(profile) - profile.currentLoan)
maxLoanWithOther(profile) ==
  calculateMaxLoan(usableTDSR(profile), tenure(profile), DefaultRateTDSR)
maxLoanWithoutOther(profile) ==
  calculateMaxLoan(tdsr(profile), tenure(profile), DefaultRateTDSR)

\* ------------------------------------------------------------------------
\* App: the figures computed on every render
\* ------------------------------------------------------------------------

\* interestRate / 100: the rate in basis points of an interest rate in
\* tenths of a percent.
PercentToRate(percent) == percent * 10

calculateOAcalc(income, birthYear) ==
  LET age0         == currentYear - birthYear
      cappedIncome == MathMin(income, Dollars(8000))
      rate         == IF age0 > 50 THEN 15
                      ELSE IF age0 > 45 THEN 19
                      ELSE IF age0 > 35 THEN 21
                      ELSE 23
  IN Times(cappedIncome, rate, 100)

calculateOA(p1, p2) ==
  calculateOAcalc(p1.monthlyIncome, p1.birthYear)
    + calculateOAcalc(p2.monthlyIncome, p2.birthYear)

sellingAgentFee == Times(Times(sellingPrice, sellingAgentFeeRate, 100), 109, 100)
\* cashFromSale clamped at 0.
cashFromSale_Clamped ==
  MathMax(0, sellingPrice - outstandingLoan - (cpfUsed1 + accruedInterest1)
               - (cpfUsed2 + accruedInterest2) - legalFees - sellingAgentFee)
cashFromSale ==
  sellingPrice - outstandingLoan - (cpfUsed1 + accruedInterest1)
    - (cpfUsed2 + accruedInterest2) - legalFees - sellingAgentFee

\* totalCpf1 without the refund of the CPF used and its accrued interest.
totalCpf1_BalanceOnly == currentCpf1
totalCpf1 == currentCpf1 + cpfUsed1 + accruedInterest1
totalCpf2 == currentCpf2 + cpfUsed2 + accruedInterest2

totalAvailable == cashFromSale + cashSavings + totalCpf1 + totalCpf2

age1 == IF buyer1.birthYear # 0 THEN currentYear - buyer1.birthYear ELSE 0
age2 == IF buyer2.birthYear # 0 THEN currentYear - buyer2.birthYear ELSE 0
tenure1 == MathMin(65 - age1, 35)
tenure2 == MathMin(65 - age2, 35)

adjustedIncome1 ==
  IF buyer1.incomeType = "Fixed"
    THEN MathMax(buyer1.monthlyIncome, Times(buyer1.noa, 1, 12))
    ELSE MathMin(buyer1.monthlyIncome, Times(buyer1.noa, 1, 12))
adjustedIncome2 ==
  IF buyer2.incomeType = "Fixed"
    THEN MathMax(buyer2.monthlyIncome, Times(buyer2.noa, 1, 12))
    ELSE MathMin(buyer2.monthlyIncome, Times(buyer2.noa, 1, 12))

tdsr1 == Times(adjustedIncome1, 55, 100)
tdsr2 == Times(adjustedIncome2, 55, 100)
usableTDSR1 == MathMax(0, tdsr1 - buyer1.currentLoan)
usableTDSR2 == MathMax(0, tdsr2 - buyer2.currentLoan)

maxLoan1 == calculateMaxLoan(usableTDSR1, tenure1, PercentToRate(interestRate))
maxLoan2 == calculateMaxLoan(usableTDSR2, tenure2, PercentToRate(interestRate))

\* msrLimit1 at the default rate of calculateMaxLoanMSR.
msrLimit1_DefaultRate == calculateMaxLoanMSR(buyer1.monthlyIncome, tenure1, DefaultRateMSR)
msrLimit1 == calculateMaxLoanMSR(buyer1.monthlyIncome, tenure1, PercentToRate(interestRate))
msrLimit2 == calculateMaxLoanMSR(buyer2.monthlyIncome, tenure2, PercentToRate(interestRate))

\* eligibleLoan without the MSR ceiling.
eligibleLoan_NoMSR == MathMax(maxLoan1, maxLoan2)
eligibleLoan ==
  IF propertyType = "HDB"
    THEN MathMax(MathMin(maxLoan1, msrLimit1), MathMin(maxLoan2, msrLimit2))
    ELSE MathMax(maxLoan1, maxLoan2)

\* ------------------------------------------------------------------------
\* App: the target plan
\* ------------------------------------------------------------------------

\* Years are kept in tenths, the digit that toFixed(1) displays.
RunwayUnit == 10

targetBSD == calculateBSD(targetPrice)
targetBuyerAgentFee ==
  IF propertyType = "HDB" THEN Times(Times(targetPrice, 1, 100), 109, 100) ELSE 0
targetLegal == Dollars(3000)
targetLoanRequired == MathMax(0, targetPrice - targetCash - targetCPF1 - targetCPF2)
targetLTVLimit == IF propertyType = "HDB" /\ loanType = "HDB" THEN 80 ELSE 75
maxLTVLoanAmount == Times(targetPrice, targetLTVLimit, 100)
isLTVExceeded == Gt(targetLoanRequired, maxLTVLoanAmount)
isAffordabilityExceeded == Gt(targetLoanRequired, eligibleLoan)
targetMonthlyInstalment ==
  calculateMonthlyInstalment(targetLoanRequired, loanTenure, PercentToRate(interestRate))
targetCashTopUp == MathMax(0, Sub(targetMonthlyInstalment, monthlyOA))
targetRemainingCPF == MathMax(0, (totalCpf1 + totalCpf2) - (targetCPF1 + targetCPF2))
targetRunway ==
  IF Gt(targetCashTopUp, 0)
    THEN Times(targetRemainingCPF, RunwayUnit, targetCashTopUp * 12)
    ELSE 999 * RunwayUnit

\* ------------------------------------------------------------------------
\* App: the price grid.  The callbacks of the two useMemo cells, the second
\* as a function of the price and of scope, the values of App that the
\* callback reads.
\* ------------------------------------------------------------------------

RECURSIVE PricesFrom_ExclusiveEnd(_, _, _)
\* The loop with p < end.
PricesFrom_ExclusiveEnd(p, end, step) ==
  IF p < end THEN <<p>> \o PricesFrom_ExclusiveEnd(p + step, end, step) ELSE <<>>

RECURSIVE PricesFrom(_, _, _)
\* for (let p = start; p <= end; p += step) prices.push(p)
PricesFrom(p, end, step) ==
  IF p <= end THEN <<p>> \o PricesFrom(p + step, end, step) ELSE <<>>

\* The callback of purchasePrices.
computePurchasePrices(type) ==
  LET start == IF type = "HDB" THEN Dollars(300000) ELSE Dollars(700000)
      end   == IF type = "HDB" THEN Dollars(1500000) ELSE Dollars(4000000)
      step  == IF type = "HDB" THEN Dollars(50000) ELSE Dollars(100000)
  IN PricesFrom(start, end, step)

\* The values of App that the callback of purchaseDetails reads.
Scope ==
  [propertyType   |-> propertyType,
   loanType       |-> loanType,
   eligibleLoan   |-> eligibleLoan,
   loanTenure     |-> loanTenure,
   interestRate   |-> interestRate,
   monthlyOA      |-> monthlyOA,
   totalCpf1      |-> totalCpf1,
   totalCpf2      |-> totalCpf2,
   totalAvailable |-> totalAvailable,
   grants         |-> grants]

optionFee(price) == Times(price, 1, 100)
exerciseFee(price) == Times(price, 4, 100)
legal == Dollars(3000)
bsd(price) == calculateBSD(price)
absd == 0

buyerAgentFee(price, scope) ==
  IF scope.propertyType = "HDB" THEN Times(Times(price, 1, 100), 109, 100) ELSE 0

\* ltv decided by the loan type alone.
ltv_LoanTypeOnly(scope) == IF scope.loanType = "HDB" THEN 80 ELSE 75

\* The loan-to-value ratio, in percent.
ltv(scope) ==
  IF scope.propertyType = "HDB"
    THEN IF scope.loanType = "HDB" THEN 80 ELSE 75
    ELSE 75

minDownpayment(price, scope) == Times(price, 100 - ltv(scope), 100)

\* The minimum cash share of the price, in percent.
minCashPercent(scope) ==
  IF scope.propertyType = "HDB" /\ scope.loanType = "HDB" THEN 0 ELSE 5

minCashDown(price, scope) == Times(price, minCashPercent(scope), 100)

cashDeposit(price, scope) == minCashDown(price, scope) + buyerAgentFee(price, scope)

cpfDeposit(price, scope) ==
  (minDownpayment(price, scope) - minCashDown(price, scope)) + bsd(price) + absd + legal

upfrontRequired(price, scope) == cashDeposit(price, scope) + cpfDeposit(price, scope)

maxLTVLoan(price, scope) == Times(price, ltv(scope), 100)
actualEligible(scope) == scope.eligibleLoan
actualLoan(price, scope) == MathMin(maxLTVLoan(price, scope), actualEligible(scope))

loanShortfall(price, scope) ==
  MathMax(0, Sub(maxLTVLoan(price, scope), actualLoan(price, scope)))

monthlyInstalment(price, scope) ==
  calculateMonthlyInstalment(actualLoan(price, scope), scope.loanTenure,
                             PercentToRate(scope.interestRate))

rentalYield(price) == Times(Times(price, 3, 100), 1, 12)

cashTopUp(price, scope) ==
  MathMax(0, Sub(monthlyInstalment(price, scope), scope.monthlyOA))

remainingCPFBalance(price, scope) ==
  MathMax(0, (scope.totalCpf1 + scope.totalCpf2) - cpfDeposit(price, scope))

\* runwayYears left at its initial 0 when there is no cash top-up.
runwayYears_NoElse(price, scope) ==
  LET topUp == cashTopUp(price, scope)
  IN IF Gt(topUp, 0)
       THEN Times(remainingCPFBalance(price, scope), RunwayUnit, topUp * 12)
       ELSE 0

\* In tenths of a year; 999 years when there is no cash top-up.
runwayYears(price, scope) ==
  LET topUp == cashTopUp(price, scope)
  IN IF Gt(topUp, 0)
       THEN Times(remainingCPFBalance(price, scope), RunwayUnit, topUp * 12)
       ELSE 999 * RunwayUnit

additionalTDSR(price, scope) ==
  LET shortfall == loanShortfall(price, scope)
  IN IF Gt(shortfall, 0) THEN calculateMonthlyInstalment(shortfall, 30, 400) ELSE 0

pledge(price, scope) ==
  LET shortfall == loanShortfall(price, scope)
  IN IF Gt(shortfall, 0) THEN Times(shortfall, 5, 12) ELSE 0

showFund(price, scope) ==
  LET shortfall == loanShortfall(price, scope)
  IN IF Gt(shortfall, 0) THEN Times(shortfall, 25, 18) ELSE 0

\* canAfford without the condition on the loan shortfall.
canAfford_UpfrontOnly(price, scope) ==
  Le(upfrontRequired(price, scope), scope.totalAvailable + scope.grants)

canAfford(price, scope) ==
  /\ Le(upfrontRequired(price, scope), scope.totalAvailable + scope.grants)
  /\ loanShortfall(price, scope) = 0

\* One row of the grid.
purchaseDetailsRow(price, scope) ==
  [price               |-> price,
   optionFee           |-> optionFee(price),
   exerciseFee         |-> exerciseFee(price),
   legal               |-> legal,
   bsd                 |-> bsd(price),
   absd                |-> absd,
   buyerAgentFee       |-> buyerAgentFee(price, scope),
   cashDeposit         |-> cashDeposit(price, scope),
   cpfDeposit          |-> cpfDeposit(price, scope),
   activeLTV           |-> ltv(scope),
   upfrontRequired     |-> upfrontRequired(price, scope),
   loanLTV             |-> maxLTVLoan(price, scope),
   loanShortfall       |-> loanShortfall(price, scope),
   additionalTDSR      |-> additionalTDSR(price, scope),
   pledge              |-> pledge(price, scope),
   showFund            |-> showFund(price, scope),
   monthlyInstalment   |-> monthlyInstalment(price, scope),
   rentalYield         |-> rentalYield(price),
   monthlyOA           |-> scope.monthlyOA,
   cashTopUp           |-> cashTopUp(price, scope),
   runwayYears         |-> runwayYears(price, scope),
   remainingCPFBalance |-> remainingCPFBalance(price, scope),
   canAfford           |-> canAfford(price, scope)]

\* The callback of purchaseDetails: purchasePrices.map(price => ...).
computePurchaseDetails(prices, scope) ==
  [i \in 1..Len(prices) |-> purchaseDetailsRow(prices[i], scope)]

\* The memoized grid: the value computed when the callback last ran.
purchaseDetails == computePurchaseDetails(purchasePrices, purchaseDetailsScope)

\* The dependency list of purchasePrices.
PricesDeps == <<propertyType>>

\* The dependency list of purchaseDetails without monthlyOA.
DetailsDeps_NoMonthlyOA(prices, scope) ==
  <<prices, scope.eligibleLoan, scope.loanTenure, scope.interestRate,
    scope.totalAvailable, scope.propertyType, scope.loanType, scope.grants,
    scope.totalCpf1, scope.totalCpf2>>

\* The dependency list of purchaseDetails, given the price list and the
\* values of App in the render.
DetailsDeps(prices, scope) ==
  <<prices, scope.eligibleLoan, scope.loanTenure, scope.interestRate,
    scope.totalAvailable, scope.propertyType, scope.loanType, scope.grants,
    scope.monthlyOA, scope.totalCpf1, scope.totalCpf2>>

\* The first render runs both callbacks.
InitMemo ==
  /\ purchasePrices = computePurchasePrices(propertyType)
  /\ purchasePricesDeps = PricesDeps
  /\ purchaseDetailsDeps = DetailsDeps(purchasePrices, Scope)
  /\ purchaseDetailsScope = Scope
  /\ rendered = TRUE

Init == InitApp /\ InitMemo /\ NoCall

\* The render that React runs after a handler's state updates, before any
\* other handler: each useMemo cell runs its callback again when a value of
\* its dependency list has changed.
Render ==
  /\ callFn = "none"
  /\ ~rendered
  /\ LET newPrices == IF PricesDeps # purchasePricesDeps
                        THEN computePurchasePrices(propertyType)
                        ELSE purchasePrices
         newDeps   == DetailsDeps(newPrices, Scope)
     IN /\ purchasePrices' = newPrices
        /\ purchasePricesDeps' = PricesDeps
        /\ purchaseDetailsDeps' = newDeps
        /\ purchaseDetailsScope' =
             IF newDeps # purchaseDetailsDeps THEN Scope ELSE purchaseDetailsScope
  /\ rendered' = TRUE
  /\ UNCHANGED <<typeVars, saleVars, fundVars, buyerVars, targetVars, loanVars, edits,
                 callVars>>

\* ------------------------------------------------------------------------
\* App: the handlers
\* ------------------------------------------------------------------------

\* The number of edits a behaviour makes is bounded.
MaxEdits == 3

\* The values the inputs are given.
IncomeTypes == {"Fixed", "Variable"}
Incomes == {Dollars(5000), Dollars(8000)}
Noas == {Dollars(80000), Dollars(120000)}
BirthYears == {0, 1950, 1990, 1995}
CurrentLoans == {0, Dollars(1200), Dollars(3000)}
InterestRates == {0, 20, 26, 40}

\* A handler runs on the rendered page and leaves a render pending; edits
\* counts the handlers run.
Edit ==
  /\ callFn = "none"
  /\ rendered
  /\ edits' = edits + 1
  /\ rendered' = FALSE
  /\ UNCHANGED <<purchasePrices, purchasePricesDeps, purchaseDetailsDeps,
                 purchaseDetailsScope>>
  /\ UNCHANGED callVars

\* The onChange calls of a BuyerProfile panel: the profile with one field
\* replaced.
ProfileEdits(profile) ==
  {[profile EXCEPT !.incomeType = v] : v \in IncomeTypes}
    \cup {[profile EXCEPT !.monthlyIncome = v] : v \in Incomes}
    \cup {[profile EXCEPT !.noa = v] : v \in Noas}
    \cup {[profile EXCEPT !.birthYear = v] : v \in BirthYears}
    \cup {[profile EXCEPT !.currentLoan = v] : v \in CurrentLoans}

handleBuyer1Change(newProfile) ==
  /\ Edit
  /\ buyer1' = newProfile
  /\ monthlyOA' = calculateOA(newProfile, buyer2)
  /\ UNCHANGED <<typeVars, saleVars, fundVars, buyer2, loanVars, targetVars>>

handleBuyer2Change(newProfile) ==
  /\ Edit
  /\ buyer2' = newProfile
  /\ monthlyOA' = calculateOA(buyer1, newProfile)
  /\ UNCHANGED <<typeVars, saleVars, fundVars, buyer1, loanVars, targetVars>>

\* The Private and HDB / EC buttons.
setPropertyType(type) ==
  /\ Edit
  /\ propertyType' = type
  /\ UNCHANGED <<loanType, grants, saleVars, fundVars, buyerVars, loanVars, targetVars>>

\* The Bank Loan button, rendered for HDB property only.
clickBankLoan ==
  /\ Edit
  /\ propertyType = "HDB"
  /\ loanType' = "Bank"
  /\ UNCHANGED <<propertyType, grants, saleVars, fundVars, buyerVars, loanVars,
                 targetVars>>

\* The HDB Loan button, rendered for HDB property only.
clickHDBLoan ==
  /\ Edit
  /\ propertyType = "HDB"
  /\ loanType' = "HDB"
  /\ interestRate' = 26
  /\ UNCHANGED <<propertyType, grants, saleVars, fundVars, buyerVars, loanTenure,
                 targetVars>>

\* The interest rate input, disabled for HDB property with an HDB loan.
setInterestRate(value) ==
  /\ Edit
  /\ ~(propertyType = "HDB" /\ loanType = "HDB")
  /\ interestRate' = value
  /\ UNCHANGED <<typeVars, saleVars, fundVars, buyerVars, loanTenure, targetVars>>

\* Buyer profile edits, property and loan type selections and interest rate
\* edits.
NextEligibility ==
  \/ \E newProfile \in ProfileEdits(buyer1) :
       edits < MaxEdits /\ handleBuyer1Change(newProfile)
  \/ \E newProfile \in ProfileEdits(buyer2) :
       edits < MaxEdits /\ handleBuyer2Change(newProfile)
  \/ \E type \in {"Private", "HDB"} : edits < MaxEdits /\ setPropertyType(type)
  \/ edits < MaxEdits /\ clickBankLoan
  \/ edits < MaxEdits /\ clickHDBLoan
  \/ \E value \in InterestRates : edits < MaxEdits /\ setInterestRate(value)
  \/ Render
SpecEligibility == Init /\ [][NextEligibility]_vars

\* The inputs of the selling plan and of the current funds.
SellingPrices == {Dollars(2400000), Dollars(500000)}
OutstandingLoans == {Dollars(600000), 0}
CpfAmounts == {Dollars(270000), 0}
InterestAmounts == {Dollars(12500), 0}
LegalFeeAmounts == {Dollars(3000), 0}
CpfBalances == {Dollars(80000), 0}
SavingsAmounts == {Dollars(500000), 0}

setSellingPrice(value) ==
  /\ Edit
  /\ sellingPrice' = value
  /\ UNCHANGED <<typeVars, outstandingLoan, cpfUsed1, accruedInterest1, cpfUsed2,
                 accruedInterest2, legalFees, fundVars, buyerVars, loanVars, targetVars>>

setOutstandingLoan(value) ==
  /\ Edit
  /\ outstandingLoan' = value
  /\ UNCHANGED <<typeVars, sellingPrice, cpfUsed1, accruedInterest1, cpfUsed2,
                 accruedInterest2, legalFees, fundVars, buyerVars, loanVars, targetVars>>

setCpfUsed1(value) ==
  /\ Edit
  /\ cpfUsed1' = value
  /\ UNCHANGED <<typeVars, sellingPrice, outstandingLoan, accruedInterest1, cpfUsed2,
                 accruedInterest2, legalFees, fundVars, buyerVars, loanVars, targetVars>>

setAccruedInterest1(value) ==
  /\ Edit
  /\ accruedInterest1' = value
  /\ UNCHANGED <<typeVars, sellingPrice, outstandingLoan, cpfUsed1, cpfUsed2,
                 accruedInterest2, legalFees, fundVars, buyerVars, loanVars, targetVars>>

setCpfUsed2(value) ==
  /\ Edit
  /\ cpfUsed2' = value
  /\ UNCHANGED <<typeVars, sellingPrice, outstandingLoan, cpfUsed1, accruedInterest1,
                 accruedInterest2, legalFees, fundVars, buyerVars, loanVars, targetVars>>

setAccruedInterest2(value) ==
  /\ Edit
  /\ accruedInterest2' = value
  /\ UNCHANGED <<typeVars, sellingPrice, outstandingLoan, cpfUsed1, accruedInterest1,
                 cpfUsed2, legalFees, fundVars, buyerVars, loanVars, targetVars>>

setLegalFees(value) ==
  /\ Edit
  /\ legalFees' = value
  /\ UNCHANGED <<typeVars, sellingPrice, outstandingLoan, cpfUsed1, accruedInterest1,
                 cpfUsed2, accruedInterest2, fundVars, buyerVars, loanVars, targetVars>>

setCurrentCpf1(value) ==
  /\ Edit
  /\ currentCpf1' = value
  /\ UNCHANGED <<typeVars, saleVars, currentCpf2, cashSavings, buyerVars, loanVars,
                 targetVars>>

setCurrentCpf2(value) ==
  /\ Edit
  /\ currentCpf2' = value
  /\ UNCHANGED <<typeVars, saleVars, currentCpf1, cashSavings, buyerVars, loanVars,
                 targetVars>>

setCashSavings(value) ==
  /\ Edit
  /\ cashSavings' = value
  /\ UNCHANGED <<typeVars, saleVars, currentCpf1, currentCpf2, buyerVars, loanVars,
                 targetVars>>

\* Edits of the selling plan and of the current funds.
NextSale ==
  \/ \E value \in SellingPrices : edits < MaxEdits /\ setSellingPrice(value)
  \/ \E value \in OutstandingLoans : edits < MaxEdits /\ setOutstandingLoan(value)
  \/ \E value \in CpfAmounts : edits < MaxEdits /\ setCpfUsed1(value)
  \/ \E value \in InterestAmounts : edits < MaxEdits /\ setAccruedInterest1(value)
  \/ \E value \in CpfAmounts : edits < MaxEdits /\ setCpfUsed2(value)
  \/ \E value \in InterestAmounts : edits < MaxEdits /\ setAccruedInterest2(value)
  \/ \E value \in LegalFeeAmounts : edits < MaxEdits /\ setLegalFees(value)
  \/ \E value \in CpfBalances : edits < MaxEdits /\ setCurrentCpf1(value)
  \/ \E value \in CpfBalances : edits < MaxEdits /\ setCurrentCpf2(value)
  \/ \E value \in SavingsAmounts : edits < MaxEdits /\ setCashSavings(value)
  \/ Render
SpecSale == Init /\ [][NextSale]_vars

\* The inputs of the grants, of the loan settings and of the target plan.
GrantAmounts == {0, Dollars(80000)}
LoanTenures == {0, 25, 30}
MonthlyOAs == {0, Dollars(2830), Dollars(20000)}
TargetPrices == {Dollars(1000000), Dollars(2000000)}
TargetCashAmounts == {Dollars(250000), 0}
TargetCpfAmounts == {Dollars(100000), 0}

\* The Est. Grants input, rendered for HDB property only.
setGrants(value) ==
  /\ Edit
  /\ propertyType = "HDB"
  /\ grants' = value
  /\ UNCHANGED <<propertyType, loanType, saleVars, fundVars, buyerVars, loanVars,
                 targetVars>>

\* The Loan Tenure input.
setLoanTenure(value) ==
  /\ Edit
  /\ loanTenure' = value
  /\ UNCHANGED <<typeVars, saleVars, fundVars, buyerVars, interestRate, targetVars>>

\* The Combined Monthly OA input.
setMonthlyOA(value) ==
  /\ Edit
  /\ monthlyOA' = value
  /\ UNCHANGED <<typeVars, saleVars, fundVars, buyer1, buyer2, loanVars, targetVars>>

setTargetPrice(value) ==
  /\ Edit
  /\ targetPrice' = value
  /\ UNCHANGED <<typeVars, saleVars, fundVars, buyerVars, loanVars, targetCash,
                 targetCPF1, targetCPF2>>

setTargetCash(value) ==
  /\ Edit
  /\ targetCash' = value
  /\ UNCHANGED <<typeVars, saleVars, fundVars, buyerVars, loanVars, targetPrice,
                 targetCPF1, targetCPF2>>

setTargetCPF1(value) ==
  /\ Edit
  /\ targetCPF1' = value
  /\ UNCHANGED <<typeVars, saleVars, fundVars, buyerVars, loanVars, targetPrice,
                 targetCash, targetCPF2>>

setTargetCPF2(value) ==
  /\ Edit
  /\ targetCPF2' = value
  /\ UNCHANGED <<typeVars, saleVars, fundVars, buyerVars, loanVars, targetPrice,
                 targetCash, targetCPF1>>

\* Property and loan type selections and interest rate edits.
MaxSettingEdits == 5
NextLoanSettings ==
  \/ \E type \in {"Private", "HDB"} : edits < MaxSettingEdits /\ setPropertyType(type)
  \/ edits < MaxSettingEdits /\ clickBankLoan
  \/ edits < MaxSettingEdits /\ clickHDBLoan
  \/ \E value \in InterestRates : edits < MaxSettingEdits /\ setInterestRate(value)
  \/ Render
SpecLoanSettings == Init /\ [][NextLoanSettings]_vars

\* The edits that the rows of the grid depend on: property and loan type,
\* grants, loan settings, combined OA, selling price and savings.
MaxGridEdits == 3
NextGrid ==
  \/ \E type \in {"Private", "HDB"} : edits < MaxGridEdits /\ setPropertyType(type)
  \/ edits < MaxGridEdits /\ clickBankLoan
  \/ edits < MaxGridEdits /\ clickHDBLoan
  \/ \E value \in GrantAmounts : edits < MaxGridEdits /\ setGrants(value)
  \/ \E value \in InterestRates : edits < MaxGridEdits /\ setInterestRate(value)
  \/ \E value \in LoanTenures : edits < MaxGridEdits /\ setLoanTenure(value)
  \/ \E value \in MonthlyOAs : edits < MaxGridEdits /\ setMonthlyOA(value)
  \/ \E value \in SellingPrices : edits < MaxGridEdits /\ setSellingPrice(value)
  \/ \E value \in SavingsAmounts : edits < MaxGridEdits /\ setCashSavings(value)
  \/ Render
SpecGrid == Init /\ [][NextGrid]_vars

\* Property type selections and grant edits, with the selling price and the
\* cash savings that decide which rows the funds cover.
MaxGrantEdits == 4
NextGrants ==
  \/ \E type \in {"Private", "HDB"} : edits < MaxGrantEdits /\ setPropertyType(type)
  \/ \E value \in GrantAmounts : edits < MaxGrantEdits /\ setGrants(value)
  \/ \E value \in SellingPrices : edits < MaxGrantEdits /\ setSellingPrice(value)
  \/ \E value \in SavingsAmounts : edits < MaxGrantEdits /\ setCashSavings(value)
  \/ Render
SpecGrants == Init /\ [][NextGrants]_vars

\* Every handler of App.
MaxAppEdits == 2
NextApp ==
  \/ \E newProfile \in ProfileEdits(buyer1) :
       edits < MaxAppEdits /\ handleBuyer1Change(newProfile)
  \/ \E newProfile \in ProfileEdits(buyer2) :
       edits < MaxAppEdits /\ handleBuyer2Change(newProfile)
  \/ \E type \in {"Private", "HDB"} : edits < MaxAppEdits /\ setPropertyType(type)
  \/ edits < MaxAppEdits /\ clickBankLoan
  \/ edits < MaxAppEdits /\ clickHDBLoan
  \/ \E value \in GrantAmounts : edits < MaxAppEdits /\ setGrants(value)
  \/ \E value \in InterestRates : edits < MaxAppEdits /\ setInterestRate(value)
  \/ \E value \in LoanTenures : edits < MaxAppEdits /\ setLoanTenure(value)
  \/ \E value \in MonthlyOAs : edits < MaxAppEdits /\ setMonthlyOA(value)
  \/ \E value \in SellingPrices : edits < MaxAppEdits /\ setSellingPrice(value)
  \/ \E value \in OutstandingLoans : edits < MaxAppEdits /\ setOutstandingLoan(value)
  \/ \E value \in CpfAmounts : edits < MaxAppEdits /\ setCpfUsed1(value)
  \/ \E value \in InterestAmounts : edits < MaxAppEdits /\ setAccruedInterest1(value)
  \/ \E value \in CpfAmounts : edits < MaxAppEdits /\ setCpfUsed2(value)
  \/ \E value \in InterestAmounts : edits < MaxAppEdits /\ setAccruedInterest2(value)
  \/ \E value \in LegalFeeAmounts : edits < MaxAppEdits /\ setLegalFees(value)
  \/ \E value \in CpfBalances : edits < MaxAppEdits /\ setCurrentCpf1(value)
  \/ \E value \in CpfBalances : edits < MaxAppEdits /\ setCurrentCpf2(value)
  \/ \E value \in SavingsAmounts : edits < MaxAppEdits /\ setCashSavings(value)
  \/ \E value \in TargetPrices : edits < MaxAppEdits /\ setTargetPrice(value)
  \/ \E value \in TargetCashAmounts : edits < MaxAppEdits /\ setTargetCash(value)
  \/ \E value \in TargetCpfAmounts : edits < MaxAppEdits /\ setTargetCPF1(value)
  \/ \E value \in TargetCpfAmounts : edits < MaxAppEdits /\ setTargetCPF2(value)
  \/ Render
SpecApp == Init /\ [][NextApp]_vars

\* ------------------------------------------------------------------------
\* The utility functions on their own: an argument tuple is drawn, the
\* function is applied to it, and the loan that calculateMaxLoan returns is
\* fed back to calculateMonthlyInstalment with the same tenure and rate.
\* ------------------------------------------------------------------------

\* Prices: every multiple of PriceStep up to MaxPriceSteps steps, and the
\* dollar before and after each tier boundary of calculateBSD.
PriceStep == Dollars(20000)
MaxPriceSteps == 210
TierBoundaries == {Dollars(180000), Dollars(360000), Dollars(1000000),
                   Dollars(1500000), Dollars(3000000)}
BSDPrices ==
  {k * PriceStep : k \in 0..MaxPriceSteps}
    \cup {b + d : b \in TierBoundaries, d \in {Dollars(0 - 1), Dollars(1)}}

\* Budgets, incomes and principals; tenures in years; annual rates in basis
\* points.
CallAmounts == {Dollars(0 - 1000), 0, Dollars(1000), 246667, Dollars(5500),
                Dollars(20000)}
MinCallTenure == 4
MaxCallTenure == 35
CallTenures == {0 - 1, 0} \cup (MinCallTenure..MaxCallTenure)
CallRates == {0, 200, 260, 400}

InitBSD ==
  /\ InitApp
  /\ InitMemo
  /\ callFn = "calculateBSD"
  /\ callArgs \in {[amount |-> p, tenureYears |-> 0, rate |-> 0] : p \in BSDPrices}
  /\ callStep = 0
  /\ callResult = 0
  /\ callBack = 0

InitAmortization ==
  /\ InitApp
  /\ InitMemo
  /\ callFn \in {"calculateMaxLoan", "calculateMaxLoanMSR", "calculateMonthlyInstalment"}
  /\ callArgs \in [amount : CallAmounts, tenureYears : CallTenures, rate : CallRates]
  /\ callStep = 0
  /\ callResult = 0
  /\ callBack = 0

ApplyBSD ==
  /\ callFn = "calculateBSD"
  /\ callStep = 0
  /\ callResult' = calculateBSD(callArgs.amount)
  /\ callStep' = 1
  /\ UNCHANGED <<appVars, callFn, callArgs, callBack>>

ApplyMaxLoan ==
  /\ callFn = "calculateMaxLoan"
  /\ callStep = 0
  /\ callResult' = calculateMaxLoan(callArgs.amount, callArgs.tenureYears, callArgs.rate)
  /\ callStep' = 1
  /\ UNCHANGED <<appVars, callFn, callArgs, callBack>>

ApplyMaxLoanMSR ==
  /\ callFn = "calculateMaxLoanMSR"
  /\ callStep = 0
  /\ callResult' = calculateMaxLoanMSR(callArgs.amount, callArgs.tenureYears, callArgs.rate)
  /\ callStep' = 1
  /\ UNCHANGED <<appVars, callFn, callArgs, callBack>>

ApplyMonthlyInstalment ==
  /\ callFn = "calculateMonthlyInstalment"
  /\ callStep = 0
  /\ callResult' = calculateMonthlyInstalment(callArgs.amount, callArgs.tenureYears, callArgs.rate)
  /\ callStep' = 1
  /\ UNCHANGED <<appVars, callFn, callArgs, callBack>>

\* calculateMonthlyInstalment(calculateMaxLoan(B, T, R), T, R)
ApplyInstalmentToMaxLoan ==
  /\ callFn = "calculateMaxLoan"
  /\ callStep = 1
  /\ callBack' = calculateMonthlyInstalment(callResult, callArgs.tenureYears, callArgs.rate)
  /\ callStep' = 2
  /\ UNCHANGED <<appVars, callFn, callArgs, callResult>>

NextBSD == ApplyBSD
SpecBSD == InitBSD /\ [][NextBSD]_vars

NextAmortization ==
  \/ ApplyMaxLoan
  \/ ApplyMaxLoanMSR
  \/ ApplyMonthlyInstalment
  \/ ApplyInstalmentToMaxLoan
SpecAmortization == InitAmortization /\ [][NextAmortization]_vars

\* ------------------------------------------------------------------------
\* Claims about the utility functions
\* ------------------------------------------------------------------------

\* The tiers of the stamp duty: the excess over lo dollars, up to hi dollars,
\* is charged pct percent on top of base dollars.
BSDTiers ==
  << [lo |-> 0,       hi |-> 180000,   base |-> 0,      pct |-> 1],
     [lo |-> 180000,  hi |-> 360000,   base |-> 1800,   pct |-> 2],
     [lo |-> 360000,  hi |-> 1000000,  base |-> 5400,   pct |-> 3],
     [lo |-> 1000000, hi |-> 1500000,  base |-> 24600,  pct |-> 4],
     [lo |-> 1500000, hi |-> 3000000,  base |-> 44600,  pct |-> 5],
     [lo |-> 3000000, hi |-> 20000000, base |-> 119600, pct |-> 6] >>

\* The duty of tier i at a price p of whole dollars.
TierDuty(i, p) ==
  Dollars(BSDTiers[i].base) + ((p - Dollars(BSDTiers[i].lo)) * BSDTiers[i].pct) \div 100

\* C1: the duty calculateBSD returns for a price is its tier's base plus the
\* tier's rate on the excess over the previous boundary, and at each boundary
\* price the lower tier's formula, the upper tier's formula and the duty
\* returned agree (1800, 5400, 24600, 44600, 119600).
C1_BSDContinuousTiers ==
  (callFn = "calculateBSD" /\ callStep = 1) =>
    LET p == callArgs.amount
    IN /\ \A i \in 1..6 :
            ((i = 1 \/ p > Dollars(BSDTiers[i].lo)) /\ p <= Dollars(BSDTiers[i].hi))
              => callResult = TierDuty(i, p)
       /\ \A i \in 1..5 :
            p = Dollars(BSDTiers[i].hi)
              => /\ callResult = TierDuty(i, p)
                 /\ callResult = TierDuty(i + 1, p)
                 /\ callResult = Dollars(BSDTiers[i + 1].base)

\* The duty at the boundary of 1,000,000 has been computed: 24,600.
C1_Witness ==
  /\ callFn = "calculateBSD"
  /\ callStep = 1
  /\ callArgs.amount = Dollars(1000000)
  /\ callResult = Dollars(24600)

AbsDiff(a, b) == IF a >= b THEN a - b ELSE b - a

\* a equals b within a relative tolerance of 1e-6.
WithinTolerance(a, b) ==
  /\ IsNum(a)
  /\ AbsDiff(a, b) <= 2000
  /\ AbsDiff(a, b) * 1000000 <= b

\* C2: for a positive budget B, tenure T and rate R,
\* calculateMonthlyInstalment(calculateMaxLoan(B, T, R), T, R) is B within a
\* relative tolerance of 1e-6.
C2_InstalmentInvertsMaxLoan ==
  (/\ callFn = "calculateMaxLoan"
   /\ callStep = 2
   /\ callArgs.amount > 0
   /\ callArgs.tenureYears > 0
   /\ callArgs.rate > 0)
    => WithinTolerance(callBack, callArgs.amount)

\* A positive loan of a positive budget has been turned back into the
\* instalment.
C2_Witness ==
  /\ callFn = "calculateMaxLoan"
  /\ callStep = 2
  /\ callArgs = [amount |-> 246667, tenureYears |-> 30, rate |-> 260]
  /\ callResult > callArgs.amount
  /\ callBack > 0

\* C3: calculateMaxLoan, calculateMaxLoanMSR and calculateMonthlyInstalment
\* return 0 whenever the budget or principal, the rate or the tenure is not
\* positive.
C3_DegenerateArgumentsGiveZero ==
  (/\ callFn \in {"calculateMaxLoan", "calculateMaxLoanMSR", "calculateMonthlyInstalment"}
   /\ callStep >= 1
   /\ (callArgs.amount <= 0 \/ callArgs.rate <= 0 \/ callArgs.tenureYears <= 0))
    => callResult = 0

\* The tenure of a buyer born in birthYear, as the loan rules state it:
\* 65 less the age, at most 35 and at least 0, an unset birth year counting
\* as age 0.
RuleTenure(birthYear) ==
  LET years == IF birthYear = 0 THEN 0 ELSE currentYear - birthYear
      left  == 65 - years
  IN IF left < 0 THEN 0 ELSE IF left > 35 THEN 35 ELSE left

\* C4: the tenure used for each buyer's maximum loan is
\* max(0, min(65 - age, 35)), always within 0..35, in the buyer's panel
\* (tenure) and in App (tenure1, tenure2) alike.
C4_TenureWithinBounds ==
  /\ tenure(buyer1) = RuleTenure(buyer1.birthYear)
  /\ tenure(buyer2) = RuleTenure(buyer2.birthYear)
  /\ tenure1 = RuleTenure(buyer1.birthYear)
  /\ tenure2 = RuleTenure(buyer2.birthYear)
  /\ {tenure(buyer1), tenure(buyer2), tenure1, tenure2} \subseteq 0..35

\* The OA contribution of a buyer as the spec states it: 23% of the income
\* capped at 8,000 when the birth year is unset (age 0), else the rate of
\* the age bracket.
RuleOA(profile) ==
  LET years  == IF profile.birthYear = 0 THEN 0 ELSE currentYear - profile.birthYear
      capped == IF profile.monthlyIncome > Dollars(8000)
                  THEN Dollars(8000) ELSE profile.monthlyIncome
      pct    == IF years > 50 THEN 15
                ELSE IF years > 45 THEN 19
                ELSE IF years > 35 THEN 21
                ELSE 23
  IN (capped * pct) \div 100

\* C5: when a buyer's birth year is unset (0), the buyer counts as age 0
\* everywhere: the tenure is 35 years in the panel and in App, and the OA
\* contribution computed on the edit is 23% of the buyer's capped income.
C5_UnsetBirthYearIsAgeZero ==
  /\ buyer1.birthYear = 0 =>
       /\ tenure(buyer1) = 35
       /\ tenure1 = 35
       /\ monthlyOA = RuleOA(buyer1) + RuleOA(buyer2)
  /\ buyer2.birthYear = 0 =>
       /\ tenure(buyer2) = 35
       /\ tenure2 = 35
       /\ monthlyOA = RuleOA(buyer1) + RuleOA(buyer2)

\* The adjusted income as the loan rules state it: for a fixed income the
\* larger, for a variable income the smaller, of the monthly income and a
\* twelfth of the notice of assessment.
RuleAdjustedIncome(profile) ==
  LET monthlyNoa == (profile.noa + 6) \div 12
  IN IF (profile.incomeType = "Fixed") = (profile.monthlyIncome >= monthlyNoa)
       THEN profile.monthlyIncome
       ELSE monthlyNoa

\* C6: for non-negative inputs the adjusted income is max(income, NOA/12)
\* for Fixed and min(income, NOA/12) for Variable, the TDSR limit is 55% of
\* it, the usable budget is within 0..TDSR limit, and the maximum loan with
\* the existing debt never exceeds the maximum loan without it.
C6_IncomeAndBudgetBounds ==
  /\ \A profile \in {buyer1, buyer2} :
       /\ adjustedIncome(profile) = RuleAdjustedIncome(profile)
       /\ tdsr(profile) = (adjustedIncome(profile) * 55 + 50) \div 100
       /\ usableTDSR(profile) >= 0
       /\ usableTDSR(profile) <= tdsr(profile)
       /\ IsNum(maxLoanWithOther(profile))
       /\ maxLoanWithOther(profile) <= maxLoanWithoutOther(profile)
  /\ adjustedIncome1 = RuleAdjustedIncome(buyer1)
  /\ adjustedIncome2 = RuleAdjustedIncome(buyer2)
  /\ tdsr1 = (adjustedIncome1 * 55 + 50) \div 100
  /\ tdsr2 = (adjustedIncome2 * 55 + 50) \div 100
  /\ usableTDSR1 \in 0..tdsr1
  /\ usableTDSR2 \in 0..tdsr2

\* Buyer 1 has a variable income and a debt above the TDSR limit: the usable
\* budget is 0 and the loan with the debt is 0, below the loan without it.
C6_Witness ==
  /\ buyer1.incomeType = "Variable"
  /\ adjustedIncome(buyer1) = buyer1.monthlyIncome
  /\ buyer1.monthlyIncome < (buyer1.noa + 6) \div 12
  /\ buyer1.currentLoan > tdsr(buyer1)
  /\ usableTDSR(buyer1) = 0
  /\ usableTDSR1 = 0
  /\ maxLoanWithOther(buyer1) = 0
  /\ maxLoanWithoutOther(buyer1) > 0
  /\ usableTDSR(buyer2) > 0
  /\ maxLoanWithOther(buyer2) > 0

\* x is one of a and b and neither of them is greater than x.
IsLargerOf(x, a, b) == x \in {a, b} /\ ~Gt(a, x) /\ ~Gt(b, x)

\* x is one of a and b and is greater than neither.
IsSmallerOf(x, a, b) == x \in {a, b} /\ ~Gt(x, a) /\ ~Gt(x, b)

\* C7: for HDB the eligible loan is the larger of the two buyers' effective
\* maxima, each the smaller of the buyer's TDSR loan and MSR loan, so it
\* exceeds neither the larger TDSR loan nor the larger MSR loan; for Private
\* it is the larger TDSR loan, whatever the MSR loans are.
C7_EligibleLoanCeilings ==
  /\ propertyType = "HDB" =>
       /\ \E eff1 \in {maxLoan1, msrLimit1} : \E eff2 \in {maxLoan2, msrLimit2} :
            /\ IsSmallerOf(eff1, maxLoan1, msrLimit1)
            /\ IsSmallerOf(eff2, maxLoan2, msrLimit2)
            /\ IsLargerOf(eligibleLoan, eff1, eff2)
       /\ ~Gt(eligibleLoan, maxLoan1) \/ ~Gt(eligibleLoan, maxLoan2)
       /\ ~Gt(eligibleLoan, msrLimit1) \/ ~Gt(eligibleLoan, msrLimit2)
  /\ propertyType = "Private" =>
       IsLargerOf(eligibleLoan, maxLoan1, maxLoan2)

\* An HDB purchase in which the MSR loan of each buyer is below the TDSR
\* loan, so that the eligible loan is an MSR loan.
C7_Witness ==
  /\ propertyType = "HDB"
  /\ Lt(msrLimit1, maxLoan1)
  /\ Lt(msrLimit2, maxLoan2)
  /\ Lt(msrLimit1, msrLimit2)
  /\ eligibleLoan = msrLimit2
  /\ eligibleLoan > 0

\* C8: for Private property the eligible loan of App is the larger of the
\* two panels' maximum loans with the other loan, for every interest rate.
C8_PrivateLoanMatchesPanels ==
  propertyType = "Private" =>
    IsLargerOf(eligibleLoan, maxLoanWithOther(buyer1), maxLoanWithOther(buyer2))

\* C9 as stated: the MSR loan is computed at a rate of its own, so that a
\* change of the loan-settings interest rate leaves it as it was.
C9_MSRIgnoresInterestRate ==
  [][(interestRate' # interestRate /\ buyer1' = buyer1 /\ buyer2' = buyer2)
       => (msrLimit1' = msrLimit1 /\ msrLimit2' = msrLimit2)]_vars

\* C9 amended: the MSR loan of each buyer is the annuity loan of 30% of the
\* buyer's raw monthly income (not the adjusted income) over the buyer's
\* tenure at the loan-settings interest rate, the rate of the TDSR loan; at
\* a positive loan-settings rate other than 2.6% it differs from the loan
\* at the 2.6% default of calculateMaxLoanMSR.
C9_MSRAtLoanSettingsRate ==
  /\ msrLimit1 = calculateMaxLoan((buyer1.monthlyIncome * 30) \div 100, tenure1,
                                  PercentToRate(interestRate))
  /\ msrLimit2 = calculateMaxLoan((buyer2.monthlyIncome * 30) \div 100, tenure2,
                                  PercentToRate(interestRate))
  /\ (/\ interestRate > 0
      /\ PercentToRate(interestRate) # DefaultRateMSR
      /\ buyer1.monthlyIncome > 0
      /\ tenure1 > 0)
       => /\ IsNum(msrLimit1)
          /\ msrLimit1 # calculateMaxLoanMSR(buyer1.monthlyIncome, tenure1, DefaultRateMSR)

\* The interest rate has been set to 4%, buyer 1's adjusted income is above
\* the raw income, and the MSR loan is below the loan at 2.6%.
C9_Witness ==
  /\ interestRate = 40
  /\ edits > 0
  /\ adjustedIncome1 > buyer1.monthlyIncome
  /\ msrLimit1 > 0
  /\ msrLimit1 < calculateMaxLoanMSR(buyer1.monthlyIncome, tenure1, DefaultRateMSR)

\* The deductions from the selling price other than the agent fee.
SaleDeductions ==
  outstandingLoan + cpfUsed1 + accruedInterest1 + cpfUsed2 + accruedInterest2 + legalFees

\* C10: the cash from the sale is the selling price less the outstanding
\* loan, both buyers' CPF refunds with accrued interest, the legal fees and
\* the agent fee of 2% of the price with 9% GST; it is not clamped, so it is
\* negative when the deductions exceed the price, and it enters the total
\* available funds as it is; the default inputs give a fee of 52,320 and
\* cash of 1,199,680.
C10_CashFromSale ==
  /\ sellingPrice % Dollars(100) = 0
  /\ sellingAgentFee = (sellingPrice \div Dollars(100)) * 218
  /\ cashFromSale = sellingPrice - SaleDeductions - sellingAgentFee
  /\ SaleDeductions + sellingAgentFee > sellingPrice => cashFromSale < 0
  /\ totalAvailable = cashFromSale + cashSavings + currentCpf1 + currentCpf2
                        + cpfUsed1 + accruedInterest1 + cpfUsed2 + accruedInterest2
  /\ (/\ sellingPrice = Dollars(2400000)
      /\ SaleDeductions = Dollars(600000 + 270000 + 12500 + 250000 + 12500 + 3000))
       => /\ sellingAgentFee = Dollars(52320)
          /\ cashFromSale = Dollars(1199680)

\* The selling price has been lowered below the deductions: the cash from
\* the sale is negative and lowers the total available funds.
C10_Witness ==
  /\ edits > 0
  /\ sellingPrice = Dollars(500000)
  /\ SaleDeductions > sellingPrice
  /\ cashFromSale < 0
  /\ totalAvailable < cashSavings + totalCpf1 + totalCpf2

\* The price grid of a property type as the spec states it: first and last
\* price, step and number of rows.
RuleGrid(type) ==
  IF type = "HDB"
    THEN [first |-> 300000, last |-> 1500000, step |-> 50000, rows |-> 25]
    ELSE [first |-> 700000, last |-> 4000000, step |-> 100000, rows |-> 34]

\* C11: the price grid is finite and strictly ascending and depends only on
\* the property type: Private 700,000..4,000,000 in steps of 100,000 (34
\* rows), HDB 300,000..1,500,000 in steps of 50,000 (25 rows), endpoints
\* included; purchaseDetails has one row per grid price, in the same order.
C11_PriceGrid ==
  rendered =>
    LET grid == RuleGrid(propertyType)
    IN /\ Len(purchasePrices) = grid.rows
       /\ \A i \in 1..grid.rows :
            purchasePrices[i] = Dollars(grid.first + (i - 1) * grid.step)
       /\ \A i \in 1..(grid.rows - 1) : purchasePrices[i] < purchasePrices[i + 1]
       /\ purchasePrices[grid.rows] = Dollars(grid.last)
       /\ DOMAIN purchaseDetails = 1..grid.rows
       /\ \A i \in 1..grid.rows : purchaseDetails[i].price = purchasePrices[i]

\* The property type has been changed to HDB and the grid rendered: 25 rows
\* from 300,000 to 1,500,000.
C11_Witness ==
  /\ rendered
  /\ edits > 0
  /\ propertyType = "HDB"
  /\ Len(purchasePrices) = 25
  /\ purchaseDetails[1].price = Dollars(300000)
  /\ purchaseDetails[25].price = Dollars(1500000)

\* C12: after any sequence of property type and loan type selections, every
\* row's loan-to-value ratio is 80% and its minimum cash 0% exactly when the
\* property type is HDB and the loan type is HDB; in every other
\* combination, Private with a loan type HDB selected before included, the
\* ratio is 75% and the minimum cash 5% of the price.
C12_LtvAndMinCash ==
  rendered =>
    \A i \in DOMAIN purchaseDetails :
      LET row     == purchaseDetails[i]
          minCash == row.cashDeposit - row.buyerAgentFee
      IN IF propertyType = "HDB" /\ loanType = "HDB"
           THEN /\ row.activeLTV = 80
                /\ minCashPercent(purchaseDetailsScope) = 0
                /\ minCash = 0
           ELSE /\ row.activeLTV = 75
                /\ minCashPercent(purchaseDetailsScope) = 5
                /\ minCash * 20 = row.price

\* HDB and the HDB loan have been selected and then Private: the loan type
\* is still HDB and the rows are at 75% with 5% cash.
C12_Witness ==
  /\ rendered
  /\ propertyType = "Private"
  /\ loanType = "HDB"
  /\ purchaseDetails[1].activeLTV = 75
  /\ purchaseDetails[1].cashDeposit = Dollars(35000)

\* C13: within one grid the loan shortfall max(0, price x ltv - min(price x
\* ltv, eligibleLoan)) is non-negative and non-decreasing as the price
\* increases, and actualLoan + loanShortfall = price x ltv in every row.
C13_ShortfallMonotone ==
  rendered =>
    LET scope == purchaseDetailsScope
        short(i) == loanShortfall(purchasePrices[i], scope)
    IN \A i \in DOMAIN purchasePrices :
         /\ Le(0, short(i))
         /\ i > 1 => Le(short(i - 1), short(i))
         /\ Add(actualLoan(purchasePrices[i], scope), short(i))
              = maxLTVLoan(purchasePrices[i], scope)

\* C14: in every row the fallback financing figures (additionalTDSR, pledge,
\* showFund) are all 0 exactly when the loan shortfall is 0, and otherwise
\* pledge = loanShortfall x 5/12 and showFund = loanShortfall x 25/18; a
\* Private row at 1,000,000 with an eligible loan of at least 750,000 has
\* stamp duty 24,600, LTV 75%, loan at the LTV cap 750,000, shortfall 0,
\* pledge 0 and show fund 0.
C14_FallbackFinancing ==
  rendered =>
    \A i \in DOMAIN purchaseDetails :
      LET row == purchaseDetails[i]
      IN /\ (row.additionalTDSR = 0 /\ row.pledge = 0 /\ row.showFund = 0)
              <=> row.loanShortfall = 0
         /\ row.loanShortfall # 0 =>
              /\ IsNum(row.pledge)
              /\ AbsDiff(row.pledge * 12, row.loanShortfall * 5) <= 6
              /\ row.showFund = (row.loanShortfall \div 18) * 25
                                  + (((row.loanShortfall % 18) * 25 + 9) \div 18)
         /\ (/\ propertyType = "Private"
             /\ row.price = Dollars(1000000)
             /\ Le(Dollars(750000), purchaseDetailsScope.eligibleLoan))
              => /\ row.bsd = Dollars(24600)
                 /\ row.activeLTV = 75
                 /\ row.loanLTV = Dollars(750000)
                 /\ row.loanShortfall = 0
                 /\ row.pledge = 0
                 /\ row.showFund = 0

\* The runway in tenths of a year that the remaining CPF gives at a positive
\* monthly top-up: remaining / (topUp x 12), to the nearest tenth.
IsRunwayOf(runway, remaining, topUp) ==
  /\ IsNum(runway)
  /\ AbsDiff(runway * (topUp * 12), remaining * RunwayUnit) * 2 <= topUp * 12

\* The CPF left after the CPF deposit of a row, not below 0.
RuleRemainingCPF(row) ==
  IF totalCpf1 + totalCpf2 > row.cpfDeposit
    THEN totalCpf1 + totalCpf2 - row.cpfDeposit
    ELSE 0

RuleUpfront(row) ==
  (row.price \div 100) * (100 - row.activeLTV) + row.bsd + Dollars(3000)
    + (IF propertyType = "HDB" THEN (row.price \div 10000) * 109 ELSE 0)

\* C16: a row is flagged affordable exactly when upfrontRequired <=
\* totalAvailable + grants and the loan shortfall is 0, where upfrontRequired
\* = cashDeposit + cpfDeposit = price x (1 - ltv) + stamp duty + 3,000 +
\* buyer agent fee; no row with a positive shortfall is flagged affordable.
C16_CanAfford ==
  rendered =>
    \A i \in DOMAIN purchaseDetails :
      LET row == purchaseDetails[i]
      IN /\ row.upfrontRequired = row.cashDeposit + row.cpfDeposit
         /\ row.upfrontRequired = RuleUpfront(row)
         /\ row.bsd = calculateBSD(row.price)
         /\ row.canAfford <=>
              (row.upfrontRequired <= totalAvailable + grants /\ row.loanShortfall = 0)
         /\ Gt(row.loanShortfall, 0) => ~row.canAfford

\* After the selling price was lowered, the grid has an affordable row, a
\* row without shortfall whose upfront amount exceeds the funds, and a row
\* with a positive shortfall.
C16_Witness ==
  /\ rendered
  /\ edits > 0
  /\ \E i \in DOMAIN purchaseDetails : purchaseDetails[i].canAfford
  /\ \E i \in DOMAIN purchaseDetails :
       /\ purchaseDetails[i].loanShortfall = 0
       /\ purchaseDetails[i].upfrontRequired > totalAvailable + grants
       /\ ~purchaseDetails[i].canAfford
  /\ \E i \in DOMAIN purchaseDetails :
       /\ purchaseDetails[i].loanShortfall > 0
       /\ ~purchaseDetails[i].canAfford

\* C17: in every reachable state, the initial one included, the combined
\* monthly OA used for each row's cash top-up (max(0, instalment - combined
\* OA)) is the sum over the two current buyer profiles of min(monthlyIncome,
\* 8000) x rate, the rate being 23% up to age 35, 21% for 36-45, 19% for
\* 46-50 and 15% above 50.
C17_CombinedOAFromProfiles ==
  rendered =>
    /\ monthlyOA = RuleOA(buyer1) + RuleOA(buyer2)
    /\ \A i \in DOMAIN purchaseDetails :
         LET row == purchaseDetails[i]
         IN /\ row.monthlyOA = RuleOA(buyer1) + RuleOA(buyer2)
            /\ IsNum(row.monthlyInstalment) =>
                 row.cashTopUp = MathMax(0, row.monthlyInstalment - row.monthlyOA)

\* C18: the memoized grid is never stale: after any sequence of input
\* changes, once rendered, the memoized purchaseDetails equals the grid
\* computed from scratch from the current inputs.  purchaseDetails is
\* computePurchaseDetails of the memoized price list and of the values the
\* callback read when it last ran, so the grid is the one computed from
\* scratch when the price list is the current property type's and every
\* value the callback read is the current one.
C18_MemoizedGridFresh ==
  rendered =>
    /\ purchasePrices = computePurchasePrices(propertyType)
    /\ purchaseDetailsScope = Scope

\* Two edits later both memoized values were recomputed: the property type
\* and the monthly OA differ from their initial values.
C18_Witness ==
  /\ rendered
  /\ edits = 2
  /\ propertyType = "HDB"
  /\ purchasePricesDeps = <<"HDB">>
  /\ monthlyOA # 0
  /\ purchaseDetailsScope.monthlyOA = monthlyOA

\* C19: totalAvailable does not depend on the CPF principal used or the
\* accrued interest of either buyer: a step that changes none of the selling
\* price, outstanding loan, legal fees, cash savings and CPF balances leaves
\* totalAvailable unchanged, and totalAvailable = sellingPrice -
\* outstandingLoan - legalFees - sellingAgentFee + cashSavings + currentCpf1
\* + currentCpf2 in every state.
C19_TotalAvailableIgnoresRefunds ==
  /\ [](totalAvailable = sellingPrice - outstandingLoan - legalFees - sellingAgentFee
                           + cashSavings + currentCpf1 + currentCpf2)
  /\ [][(/\ sellingPrice' = sellingPrice
         /\ outstandingLoan' = outstandingLoan
         /\ legalFees' = legalFees
         /\ cashSavings' = cashSavings
         /\ currentCpf1' = currentCpf1
         /\ currentCpf2' = currentCpf2)
          => totalAvailable' = totalAvailable]_vars

\* The CPF used by buyer 1 and the accrued interest of buyer 2 were both
\* changed from their initial amounts.
C19_Witness ==
  /\ edits >= 2
  /\ cpfUsed1 = 0
  /\ accruedInterest2 = 0
  /\ cashFromSale = sellingPrice - outstandingLoan - legalFees - sellingAgentFee
                      - accruedInterest1 - cpfUsed2

\* C20: whenever the property type is HDB and the loan type is HDB, the
\* interest rate used in all calculations is 2.6%, after any sequence of
\* property-type selections, loan-type selections and interest-rate edits.
C20_HDBLoanRateFixed ==
  (propertyType = "HDB" /\ loanType = "HDB") =>
    /\ interestRate = 26
    /\ rendered => purchaseDetailsScope.interestRate = 26

\* C21: the grant amount influences affordability for HDB property only:
\* when the property type is Private, the canAfford flag of every row is the
\* same whatever grant was entered before, that is, the grid has the flags
\* of the grid computed from the same inputs with no grant.
C21_GrantsIgnoredForPrivate ==
  (rendered /\ propertyType = "Private") =>
    LET noGrants == computePurchaseDetails(purchasePrices,
                                           [purchaseDetailsScope EXCEPT !.grants = 0])
    IN \A i \in DOMAIN purchaseDetails :
         purchaseDetails[i].canAfford = noGrants[i].canAfford

====
